---- MODULE Spec2Model ----
(***************************************************************************)
(* The retrieval subsystem of degreepath-tutor (src/backend/rag.py): the   *)
(* RAGSystem object with its Seen-ID Set (indexed_ids), the persistent     *)
(* vector store, the three ingestion coroutines and the query coroutine;    *)
(* with them the unit table they read (src/backend/database.py), the live  *)
(* unit search that rewrites it and the /eligibility endpoint              *)
(* (src/backend/main.py).                                                   *)
(*                                                                         *)
(* Python strings are TLA+ strings (TLC evaluates Len, \o and SubSeq on    *)
(* them), so the formatted texts and the hash keys are the texts the code  *)
(* builds.  A coroutine runs without interruption up to its await; one     *)
(* action models each such run.                                            *)
(***************************************************************************)
EXTENDS Integers, Sequences, FiniteSets, TLC

VARIABLES
    units,          \* what get_all_units() returns: the unit table, in row order
    _cache,         \* UnitSearcher._cache: the live records found so far, one per code
    skills_file,    \* SKILLS_FILE on disk
    materials_file, \* MATERIALS_FILE on disk
    vector_store,   \* the persisted Chroma collection: a set of Documents, one per id
    indexed_ids,    \* RAGSystem.indexed_ids, the process-local Seen-ID Set
    inflight,       \* ingestion calls suspended at `await _add_documents_async`
    upsert_failed,  \* history: sources whose upsert failed in this process
    completed,      \* history: sources of which a call has run to a normal return
    submitted,      \* history: how often each id was put in an upsert batch by this process
    last            \* the most recent event: which call did what

vars == <<units, _cache, skills_file, materials_file, vector_store,
          indexed_ids, inflight, upsert_failed, completed, submitted, last>>

-----------------------------------------------------------------------------
(* Python values                                                           *)

\* str(n) of a natural number
RECURSIVE Str(_)
Str(n) ==
    IF n < 10 THEN SubSeq("0123456789", n + 1, n + 1)
    ELSE Str(n \div 10) \o SubSeq("0123456789", (n % 10) + 1, (n % 10) + 1)

\* sep.join(xs)
RECURSIVE Join(_, _)
Join(xs, sep) ==
    IF xs = <<>> THEN ""
    ELSE IF Len(xs) = 1 THEN xs[1]
    ELSE xs[1] \o sep \o Join(Tail(xs), sep)

\* s[:n]
Slice(s, n) == IF Len(s) <= n THEN s ELSE SubSeq(s, 1, n)

\* n copies of s (only used to write long input texts down)
RECURSIVE Rep(_, _)
Rep(s, n) == IF n = 0 THEN "" ELSE s \o Rep(s, n - 1)

\* hashlib.md5(text.encode()).hexdigest(): a collision-free digest of the text
md5(text) == <<"md5", text>>

\* dict.get(key, default)
Get(d, key, default) == IF key \in DOMAIN d THEN d[key] ELSE default

\* the number of characters of a key that take part in a document id
IdPrefixLen == 100


-----------------------------------------------------------------------------
(* Source records the model draws from                                     *)

\* the unit of the specification's scenario
UnitComp1000 ==
    [unit_code |-> "COMP1000", title |-> "Intro",
     description |-> "Programming for beginners",
     prerequisites |-> <<>>, raw_prerequisites |-> "",
     credit_points |-> 10,
     learning_outcomes |-> <<"Write basic programs">>]

\* a unit with a description longer than the id prefix, one prerequisite and
\* the same outcome text listed twice
UnitComp1010 ==
    [unit_code |-> "COMP1010", title |-> "Fundamentals",
     description |-> Rep("Data structures. ", 6),
     prerequisites |-> <<"COMP1000">>, raw_prerequisites |-> "COMP1000",
     credit_points |-> 10,
     learning_outcomes |-> <<"Design programs", "Design programs">>]

\* two records whose texts overlap: the outcome of the first reads like the
\* description document of the second
UnitOverlapA ==
    [unit_code |-> "COMP1000", title |-> "Intro",
     description |-> "Programming for beginners",
     prerequisites |-> <<>>, raw_prerequisites |-> "",
     credit_points |-> 10,
     learning_outcomes |->
        <<"Z\nTitle: T\nDescription: D\nPrerequisites: \nCredit Points: 10">>]

UnitOverlapB ==
    [unit_code |-> "COMP1000\nLearning Outcome 1: Z", title |-> "T",
     description |-> "D",
     prerequisites |-> <<>>, raw_prerequisites |-> "",
     credit_points |-> 10,
     learning_outcomes |-> <<>>]

SkillPython ==
    [skill |-> "Python", roles |-> <<"Developer", "Data Analyst">>,
     description |-> "General purpose language",
     certifications |-> <<"PCEP">>]

\* no "certifications" key: the code defaults it to []
SkillSql ==
    [skill |-> "SQL", roles |-> <<"Data Analyst">>,
     description |-> "Relational queries"]

\* no "skill" key: a malformed record
SkillNoName ==
    [roles |-> <<"Tester">>, description |-> "Unnamed"]

\* two records whose texts agree on the first IdPrefixLen characters and
\* differ after them
SkillCloudAws ==
    [skill |-> "Cloud", roles |-> <<"Engineer">>,
     description |-> Rep("Scalable hosted services. ", 4),
     certifications |-> <<"AWS">>]

SkillCloudAzure ==
    [skill |-> "Cloud", roles |-> <<"Engineer">>,
     description |-> Rep("Scalable hosted services. ", 4),
     certifications |-> <<"Azure">>]

\* two records with the same text and different skill names
SkillSplitA ==
    [skill |-> "Web\nRoles: Designer", roles |-> <<"Developer">>,
     description |-> "Sites"]

SkillSplitB ==
    [skill |-> "Web", roles |-> <<"Designer\nRoles: Developer">>,
     description |-> "Sites"]

Missing   == [exists |-> FALSE, parses |-> FALSE, data |-> <<>>]
Malformed == [exists |-> TRUE,  parses |-> FALSE, data |-> <<>>]
File(records) == [exists |-> TRUE, parses |-> TRUE, data |-> records]

MaterialPythonDocs ==
    [title |-> "Python Tutorial", type |-> "tutorial",
     description |-> "Official tutorial",
     url |-> "https://docs.python.org/3/tutorial/",
     tags |-> <<"python", "beginner">>]

\* no "url" key: a malformed record
MaterialNoUrl ==
    [title |-> "Lost Link", type |-> "video", description |-> "No address"]

MaterialSqlCourse ==
    [title |-> "SQL Course", type |-> "course",
     description |-> "Queries and joins",
     url |-> "https://example.org/sql"]

-----------------------------------------------------------------------------
(* Document identity                                                       *)

Document(page_content, metadata, id) ==
    [page_content |-> page_content, metadata |-> metadata, id |-> id]

\* variant: the key leaves the content out
_generate_doc_id_no_content(content, metadata) ==
    md5(Get(metadata, "unit_code", "") \o ":" \o Get(metadata, "type", ""))

\* variant: the key also takes the record's name from the metadata
_generate_doc_id_with_name(content, metadata) ==
    md5(Get(metadata, "unit_code", "") \o ":" \o Get(metadata, "type", "") \o
        ":" \o Get(metadata, "skill_name", "") \o ":" \o
        Slice(content, IdPrefixLen))

\* variant: the key is the unit code alone
_generate_doc_id_unit_only(content, metadata) ==
    md5(Get(metadata, "unit_code", ""))

_generate_doc_id(content, metadata) ==
    LET key == Get(metadata, "unit_code", "") \o ":" \o
               Get(metadata, "type", "") \o ":" \o Slice(content, IdPrefixLen)
    IN  md5(key)

-----------------------------------------------------------------------------
(* Candidate documents of each source, in the order the loops meet them    *)

Candidate(text, metadata) == [text |-> text, metadata |-> metadata]

\* A column that is NULL in the row has no field in the unit record; the
\* f-string writes the None that dict(row) holds for it as "None".
desc_text(unit) ==
    LET prereq_list == unit.prerequisites
        prereq_text == IF prereq_list # <<>> THEN Join(prereq_list, ", ")
                       ELSE Get(unit, "raw_prerequisites", "None")
        credit      == IF "credit_points" \in DOMAIN unit
                       THEN Str(unit.credit_points) ELSE "None"
    IN  "Unit Code: " \o unit.unit_code \o "\nTitle: " \o unit.title \o
        "\nDescription: " \o Get(unit, "description", "None") \o
        "\nPrerequisites: " \o prereq_text \o
        "\nCredit Points: " \o credit

\* i is the 0-based index of enumerate()
lo_text(unit_code, i, outcome) ==
    "Unit Code: " \o unit_code \o "\nLearning Outcome " \o Str(i + 1) \o
    ": " \o outcome

UnitDocs(unit) ==
    <<Candidate(desc_text(unit),
                [source |-> "unit_guide", type |-> "description",
                 unit_code |-> unit.unit_code])>>
    \o [j \in 1..Len(unit.learning_outcomes) |->
          Candidate(lo_text(unit.unit_code, j - 1, unit.learning_outcomes[j]),
                    [source |-> "unit_guide", type |-> "learning_outcome",
                     unit_code |-> unit.unit_code, outcome_index |-> j - 1])]

RECURSIVE UnitCandidates(_)
UnitCandidates(table) ==
    IF table = <<>> THEN <<>>
    ELSE UnitDocs(Head(table)) \o UnitCandidates(Tail(table))

\* item[key] raises KeyError when the key is absent
WellFormed(item, required) == required \subseteq DOMAIN item

SkillRequired == {"skill", "roles", "description"}

SkillCandidate(item) ==
    Candidate("Skill: " \o item.skill \o "\nRoles: " \o Join(item.roles, ", ") \o
              "\nDescription: " \o item.description \o
              "\nCertifications: " \o Join(Get(item, "certifications", <<>>), ", "),
              [source |-> "skills_mapping", type |-> "skill",
               skill_name |-> item.skill])

MaterialRequired == {"title", "type", "description", "url"}

\* variant: the metadata type is the material's own type
MaterialCandidate_own_type(item) ==
    Candidate("Title: " \o item.title \o "\nType: " \o item.type \o
              "\nDescription: " \o item.description \o "\nURL: " \o item.url \o
              "\nTags: " \o Join(Get(item, "tags", <<>>), ", "),
              [source |-> "public_resource", type |-> item.type,
               title |-> item.title])

MaterialCandidate(item) ==
    Candidate("Title: " \o item.title \o "\nType: " \o item.type \o
              "\nDescription: " \o item.description \o "\nURL: " \o item.url \o
              "\nTags: " \o Join(Get(item, "tags", <<>>), ", "),
              [source |-> "public_resource", type |-> "material",
               title |-> item.title])

\* the records a loop gets through before the first KeyError
RECURSIVE Reached(_, _)
Reached(data, required) ==
    IF data = <<>> \/ ~WellFormed(Head(data), required) THEN <<>>
    ELSE <<Head(data)>> \o Reached(Tail(data), required)

Raises(data, required) == \E j \in 1..Len(data) : ~WellFormed(data[j], required)

\* variant: the loop appends the unseen candidates and leaves indexed_ids alone
RECURSIVE AddNew_unmarked(_, _, _)
AddNew_unmarked(cands, documents, seen) ==
    IF cands = <<>> THEN [documents |-> documents, seen |-> seen]
    ELSE LET c      == Head(cands)
             doc_id == _generate_doc_id(c.text, c.metadata)
         IN  IF doc_id \notin seen
             THEN AddNew_unmarked(Tail(cands),
                     Append(documents, Document(c.text, c.metadata, doc_id)),
                     seen)
             ELSE AddNew_unmarked(Tail(cands), documents, seen)

\* variant: the loop appends every candidate, seen or not
RECURSIVE AddNew_every(_, _, _)
AddNew_every(cands, documents, seen) ==
    IF cands = <<>> THEN [documents |-> documents, seen |-> seen]
    ELSE LET c      == Head(cands)
             doc_id == _generate_doc_id(c.text, c.metadata)
         IN  AddNew_every(Tail(cands),
                          Append(documents, Document(c.text, c.metadata, doc_id)),
                          seen \cup {doc_id})

\* the body of the three loops: every candidate whose id is not yet in
\* indexed_ids is appended to documents and its id added to indexed_ids
RECURSIVE AddNew(_, _, _)
AddNew(cands, documents, seen) ==
    IF cands = <<>> THEN [documents |-> documents, seen |-> seen]
    ELSE LET c      == Head(cands)
             doc_id == _generate_doc_id(c.text, c.metadata)
         IN  IF doc_id \notin seen
             THEN AddNew(Tail(cands),
                         Append(documents, Document(c.text, c.metadata, doc_id)),
                         seen \cup {doc_id})
             ELSE AddNew(Tail(cands), documents, seen)

-----------------------------------------------------------------------------
(* The vector store                                                        *)

Ids(docs) == {d.id : d \in docs}

DocSet(documents) == {documents[j] : j \in 1..Len(documents)}

\* variant: the documents are added beside whatever the collection holds
add_documents_append(store, documents) == store \cup DocSet(documents)

\* variant: the collection is rebuilt from the batch
add_documents_rebuild(store, documents) == DocSet(documents)

\* Chroma.add_documents with explicit ids is a collection upsert: an entry of
\* the same id is replaced, every other entry is kept
add_documents(store, documents) ==
    {d \in store : d.id \notin Ids(DocSet(documents))} \cup DocSet(documents)

-----------------------------------------------------------------------------
(* Events                                                                  *)

IngestOps == {"ingest_units", "ingest_skills", "ingest_materials"}

\* what `last` records of a call: result is "awaiting" (suspended at the
\* await of the upsert), "ok" (returned) or "error" (raised)
Event(op, result) ==
    [op |-> op, result |-> result,
     upserted |-> FALSE,   \* the call has made an upsert call
     fresh |-> FALSE,      \* it began with an empty corpus and Seen-ID Set
     retry |-> FALSE,      \* it began after a failed upsert of the same source
     batch |-> <<>>,       \* the documents it submitted
     args |-> <<>>,        \* the arguments of a query
     k |-> 0, fetch |-> 0, where_filter |-> <<>>, searched |-> "",
     candidates |-> <<>>, results |-> <<>>,
     distance |-> 0, score |-> 0,   \* the argument and result of _normalize_score
     replaced |-> {},      \* ids whose entry an upsert replaced by another document
     request |-> <<>>,     \* the body of an /eligibility request
     unit_data |-> <<>>,   \* the unit record the request was answered from
     response |-> <<>>]    \* the /eligibility response

InflightOps(calls) == {t.op : t \in calls}

\* the submission counts after one more batch has been handed to the upsert
Submit(counts, documents) ==
    [id \in DOMAIN counts \cup Ids(DocSet(documents)) |->
        (IF id \in DOMAIN counts THEN counts[id] ELSE 0) +
        Cardinality({j \in 1..Len(documents) : documents[j].id = id})]

NoneSubmitted == [id \in {} |-> 0]

\* a call that returns normally while no other call of its source is still
\* suspended has run the source to completion
Completed(op, others) ==
    IF op \in InflightOps(others) THEN completed ELSE completed \cup {op}

-----------------------------------------------------------------------------
(* Ingestion                                                               *)

\* the loop and the `if documents:` that follows it, up to the await;
\* raised: the loop ends in a KeyError after the candidates given
Loop(op, cands, raised) ==
    LET r     == AddNew(cands, <<>>, indexed_ids)
        fresh == indexed_ids = {} /\ vector_store = {}
        retry == op \in upsert_failed
        ev    == [Event(op, "ok") EXCEPT !.fresh = fresh, !.retry = retry]
    IN  /\ indexed_ids' = r.seen
        /\ IF raised
           THEN /\ last' = [ev EXCEPT !.result = "error"]
                /\ UNCHANGED <<inflight, completed, submitted>>
           ELSE IF r.documents = <<>>
           THEN /\ last' = ev
                /\ completed' = Completed(op, inflight)
                /\ UNCHANGED <<inflight, submitted>>
           ELSE /\ inflight' = inflight \cup
                       {[op |-> op, documents |-> r.documents,
                         fresh |-> fresh, retry |-> retry]}
                /\ last' = [ev EXCEPT !.result = "awaiting", !.upserted = TRUE,
                                      !.batch = r.documents]
                /\ submitted' = Submit(submitted, r.documents)
                /\ UNCHANGED completed

RunLoop(op, cands, raised) ==
    /\ Loop(op, cands, raised)
    /\ UNCHANGED <<units, _cache, skills_file, materials_file, vector_store,
                   upsert_failed>>

\* return before anything is read, or raise out of json.load
EndEarly(op, result) ==
    /\ last' = [Event(op, result) EXCEPT
                   !.fresh = (indexed_ids = {} /\ vector_store = {}),
                   !.retry = (op \in upsert_failed)]
    /\ completed' = IF result = "ok" THEN Completed(op, inflight) ELSE completed
    /\ UNCHANGED <<units, _cache, skills_file, materials_file, vector_store,
                   indexed_ids, inflight, upsert_failed, submitted>>

ingest_units == RunLoop("ingest_units", UnitCandidates(units), FALSE)

\* the loop over a parsed JSON file
LoadAndLoop(op, file, required) ==
    LET reached == Reached(file.data, required)
    IN  RunLoop(op,
                [j \in 1..Len(reached) |->
                    IF op = "ingest_skills" THEN SkillCandidate(reached[j])
                    ELSE MaterialCandidate(reached[j])],
                Raises(file.data, required))

\* variant: the file is opened without asking whether it exists
ingest_skills_unchecked ==
    IF ~skills_file.parses THEN EndEarly("ingest_skills", "error")
    ELSE LoadAndLoop("ingest_skills", skills_file, SkillRequired)

ingest_skills ==
    IF ~skills_file.exists THEN EndEarly("ingest_skills", "ok")
    ELSE IF ~skills_file.parses THEN EndEarly("ingest_skills", "error")
    ELSE LoadAndLoop("ingest_skills", skills_file, SkillRequired)

ingest_materials ==
    IF ~materials_file.exists THEN EndEarly("ingest_materials", "ok")
    ELSE IF ~materials_file.parses THEN EndEarly("ingest_materials", "error")
    ELSE LoadAndLoop("ingest_materials", materials_file, MaterialRequired)

\* the executor finishes add_documents and the suspended call returns
AddDocumentsReturns(t) ==
    /\ t \in inflight
    /\ vector_store' = add_documents(vector_store, t.documents)
    /\ inflight' = inflight \ {t}
    /\ completed' = Completed(t.op, inflight \ {t})
    /\ last' = [Event(t.op, "ok") EXCEPT
                   !.upserted = TRUE, !.fresh = t.fresh, !.retry = t.retry,
                   !.batch = t.documents,
                   !.replaced = {d.id : d \in vector_store \ DocSet(t.documents)}
                                    \cap Ids(DocSet(t.documents))]
    /\ UNCHANGED <<units, _cache, skills_file, materials_file, indexed_ids,
                   upsert_failed, submitted>>

\* the embedding provider or the index fails: add_documents raises, nothing
\* is written, and the exception leaves the suspended call
AddDocumentsRaises(t) ==
    /\ t \in inflight
    /\ inflight' = inflight \ {t}
    /\ upsert_failed' = upsert_failed \cup {t.op}
    /\ last' = [Event(t.op, "error") EXCEPT !.upserted = TRUE,
                                            !.fresh = t.fresh,
                                            !.retry = t.retry,
                                            !.batch = t.documents]
    /\ UNCHANGED <<units, _cache, skills_file, materials_file, vector_store,
                   indexed_ids, completed, submitted>>

\* the process ends and a new one constructs RAGSystem: the collection is
\* reopened from CHROMA_DB_DIR, indexed_ids is a new empty set
Restart ==
    /\ inflight = {}
    /\ indexed_ids' = {}
    /\ upsert_failed' = {}
    /\ _cache' = {}
    /\ submitted' = NoneSubmitted
    /\ last' = Event("restart", "ok")
    /\ UNCHANGED <<units, skills_file, materials_file, vector_store, inflight,
                   completed>>

-----------------------------------------------------------------------------
(* Query                                                                   *)

LowerCase == "abcdefghijklmnopqrstuvwxyz"
UpperCase == "ABCDEFGHIJKLMNOPQRSTUVWXYZ"

\* the character of `to` at the place ch has in `from`, ch itself if it has none
RECURSIVE MapChar(_, _, _)
MapChar(ch, from, to) ==
    IF from = "" THEN ch
    ELSE IF Head(from) = ch THEN Head(to)
    ELSE MapChar(ch, Tail(from), Tail(to))

Chars(text) == {SubSeq(text, j, j) : j \in 1..Len(text)}

\* the lower-case letter of each upper-case one, and the other way round
ToLower == [ch \in Chars(UpperCase) |-> MapChar(ch, UpperCase, LowerCase)]
ToUpper == [ch \in Chars(LowerCase) |-> MapChar(ch, LowerCase, UpperCase)]

\* str.lower() and str.upper() on ASCII text
RECURSIVE lower(_)
lower(text) ==
    IF text = "" THEN ""
    ELSE LET ch == Head(text)
         IN  (IF ch \in DOMAIN ToLower THEN ToLower[ch] ELSE ch) \o
             lower(Tail(text))

RECURSIVE upper(_)
upper(text) ==
    IF text = "" THEN ""
    ELSE LET ch == Head(text)
         IN  (IF ch \in DOMAIN ToUpper THEN ToUpper[ch] ELSE ch) \o
             upper(Tail(text))

StartsWith(text, prefix) ==
    Len(prefix) <= Len(text) /\ SubSeq(text, 1, Len(prefix)) = prefix

\* `sub in text`
RECURSIVE Contains(_, _)
Contains(text, sub) ==
    \/ StartsWith(text, sub)
    \/ text # "" /\ Contains(Tail(text), sub)

\* text.replace(old, new) for a non-empty old: every non-overlapping
\* occurrence, left to right
RECURSIVE replace(_, _, _)
replace(text, old, new) ==
    IF text = "" THEN ""
    ELSE IF StartsWith(text, old)
    THEN new \o replace(SubSeq(text, Len(old) + 1, Len(text)), old, new)
    ELSE Head(text) \o replace(Tail(text), old, new)

\* the items of the dict, in insertion order
QUERY_EXPANSIONS ==
    << <<"oop", "object-oriented programming">>,
       <<"db", "database">>,
       <<"ai", "artificial intelligence">>,
       <<"ml", "machine learning">>,
       <<"ds", "data science">>,
       <<"fe", "frontend">>,
       <<"be", "backend">> >>

RECURSIVE ExpandFrom(_, _, _)
ExpandFrom(query_text, query_lower, j) ==
    IF j > Len(QUERY_EXPANSIONS) THEN query_text
    ELSE LET abbrev == QUERY_EXPANSIONS[j][1]
             full   == QUERY_EXPANSIONS[j][2]
         IN  IF Contains(query_lower, abbrev)
             THEN ExpandFrom(replace(replace(query_text, abbrev, full),
                                     upper(abbrev), full),
                             query_lower, j + 1)
             ELSE ExpandFrom(query_text, query_lower, j + 1)

\* variant: the upper-case spelling of an abbreviation is left alone
RECURSIVE ExpandLowerFrom(_, _, _)
ExpandLowerFrom(query_text, query_lower, j) ==
    IF j > Len(QUERY_EXPANSIONS) THEN query_text
    ELSE LET abbrev == QUERY_EXPANSIONS[j][1]
             full   == QUERY_EXPANSIONS[j][2]
         IN  IF Contains(query_lower, abbrev)
             THEN ExpandLowerFrom(replace(query_text, abbrev, full),
                                  query_lower, j + 1)
             ELSE ExpandLowerFrom(query_text, query_lower, j + 1)

_expand_query_lower_only(query_text) ==
    ExpandLowerFrom(query_text, lower(query_text), 1)

_expand_query(query_text) == ExpandFrom(query_text, lower(query_text), 1)

\* Distances are counted in units of 0.00001, rounded distances in units of
\* 0.0001, similarity percentages in units of 0.01.

\* the 2.0 of _normalize_score, in distance units
MaxDistance == 200000

\* round() to a multiple of q, halves to the even neighbour
RoundTo(n, q) ==
    LET f == n \div q
        r == n % q
    IN  IF 2 * r < q THEN f
        ELSE IF 2 * r > q THEN f + 1
        ELSE IF f % 2 = 0 THEN f ELSE f + 1

Min(a, b) == IF a <= b THEN a ELSE b
Max(a, b) == IF a >= b THEN a ELSE b

\* variant: neither the min nor the max is taken
_normalize_score_unclamped(distance) == RoundTo(MaxDistance - distance, 20)

\* variant: the distance itself is scaled to a percentage
_normalize_score_rising(distance) ==
    RoundTo(Max(0, Min(distance, MaxDistance)), 20)

\* clamped = min(distance, 2.0); similarity = max(0, 100 * (1 - clamped / 2.0));
\* round(similarity, 2), the result counted in units of 0.01
_normalize_score(distance) ==
    LET clamped    == Min(distance, MaxDistance)
        similarity == Max(0, MaxDistance - clamped)
    IN  RoundTo(similarity, 20)

\* an optional argument is <<>> (None) or <<value>>; `if arg:` is true of a
\* value that is neither None nor the empty string
None == <<>>
Truthy(arg) == arg # None /\ arg[1] # ""

\* where_filter as the code fills it
WhereFilter(filter_source, filter_type, filter_unit_code) ==
    LET given == [source |-> filter_source, type |-> filter_type,
                  unit_code |-> filter_unit_code]
    IN  [key \in {x \in DOMAIN given : Truthy(given[x])} |-> given[key][1]]

\* the collection's `where`: equality on every key of the filter
Matches(doc, where_filter) ==
    \A key \in DOMAIN where_filter :
        key \in DOMAIN doc.metadata /\ doc.metadata[key] = where_filter[key]

\* the embedding geometry is the environment's: each of these stands for one
\* embedding model, a fixed function of the query and the content
Embeddings == {"near", "far"}

Distance(embedding, searched, content) ==
    IF embedding = "near" THEN 3 * Len(content) + Len(searched)
    ELSE MaxDistance + 50000 - 7 * Len(content)

\* every listing of docs by ascending distance (ties in any order)
RECURSIVE Ascending(_, _, _)
Ascending(docs, embedding, searched) ==
    IF docs = {} THEN {<<>>}
    ELSE LET dist(d) == Distance(embedding, searched, d.page_content)
             nearest == {d \in docs : \A e \in docs : dist(d) <= dist(e)}
         IN  UNION {{<<[doc |-> d, distance |-> dist(d)]>> \o rest :
                        rest \in Ascending(docs \ {d}, embedding, searched)} :
                    d \in nearest}

\* Chroma.similarity_search_with_score(text, k=n, filter=where_filter): the n
\* nearest of the matching documents (all of them when there are fewer)
similarity_search_with_score(store, embedding, searched, n, where_filter) ==
    {SubSeq(listing, 1, Min(n, Len(listing))) :
        listing \in Ascending({d \in store : Matches(d, where_filter)},
                              embedding, searched)}

\* the loop over the index's answer: the first occurrence of each content is
\* kept until k results are collected
RECURSIVE FormatLoop(_, _, _, _)
FormatLoop(results, k, seen_content, formatted_results) ==
    IF results = <<>> THEN formatted_results
    ELSE LET doc          == Head(results).doc
             distance     == Head(results).distance
             content_hash == md5(doc.page_content)
             formatted    ==
                 IF content_hash \notin seen_content
                 THEN Append(formatted_results,
                             [content |-> doc.page_content,
                              metadata |-> doc.metadata,
                              distance |-> RoundTo(distance, 10),
                              similarity_percent |-> _normalize_score(distance)])
                 ELSE formatted_results
         IN  IF Len(formatted) >= k THEN formatted
             ELSE FormatLoop(Tail(results), k, seen_content \cup {content_hash},
                             formatted)

\* variant: the loop stops only once it holds more than k results
RECURSIVE FormatLoopLate(_, _, _, _)
FormatLoopLate(results, k, seen_content, formatted_results) ==
    IF results = <<>> THEN formatted_results
    ELSE LET doc          == Head(results).doc
             distance     == Head(results).distance
             content_hash == md5(doc.page_content)
             formatted    ==
                 IF content_hash \notin seen_content
                 THEN Append(formatted_results,
                             [content |-> doc.page_content,
                              metadata |-> doc.metadata,
                              distance |-> RoundTo(distance, 10),
                              similarity_percent |-> _normalize_score(distance)])
                 ELSE formatted_results
         IN  IF Len(formatted) > k THEN formatted
             ELSE FormatLoopLate(Tail(results), k,
                                 seen_content \cup {content_hash}, formatted)

FormatResults_late_break(results, k) == FormatLoopLate(results, k, {}, <<>>)

\* variant: seen_content is never filled
RECURSIVE FormatLoopAll(_, _, _)
FormatLoopAll(results, k, formatted_results) ==
    IF results = <<>> THEN formatted_results
    ELSE LET doc       == Head(results).doc
             distance  == Head(results).distance
             formatted ==
                 Append(formatted_results,
                        [content |-> doc.page_content,
                         metadata |-> doc.metadata,
                         distance |-> RoundTo(distance, 10),
                         similarity_percent |-> _normalize_score(distance)])
         IN  IF Len(formatted) >= k THEN formatted
             ELSE FormatLoopAll(Tail(results), k, formatted)

FormatResults_no_dedup(results, k) == FormatLoopAll(results, k, <<>>)

\* variant: the loop stops one result short of k
FormatResults_one_short(results, k) ==
    IF k = 1 THEN <<>> ELSE FormatLoop(results, k - 1, {}, <<>>)

\* variant: the loop walks the index's answer from its far end
FormatResults_backwards(results, k) ==
    FormatLoop([j \in 1..Len(results) |-> results[Len(results) + 1 - j]],
               k, {}, <<>>)

\* variant: seen_content outlives the call, it starts with the contents the
\* query before this one returned
FormatResults_shared_seen(results, k) ==
    FormatLoop(results, k,
               {md5(last.results[j].content) : j \in 1..Len(last.results)},
               <<>>)

FormatResults(results, k) == FormatLoop(results, k, {}, <<>>)

\* the largest k a caller passes
MaxK == 2

\* the calls callers make: (query_text, filter_source, filter_type,
\* filter_unit_code)
QueryArgs ==
    { <<"oop basics", None, None, None>>,
      <<"What are the prerequisites for COMP1000?", None, <<"skill">>, None>>,
      <<"oop basics", <<"unit_guide">>, None, <<"COMP1000">>>>,
      <<"OOP and db", <<"">>, <<"learning_outcome">>, None>>,
      <<"be ml", <<"public_resource">>, <<"material">>, <<"">>>>,
      <<"dbe DB Oop oopoop", None, None, None>>,
      <<"explain between", None, None, None>> }

\* _expand_query of each query text of QueryArgs
ExpandedQuery == [a \in QueryArgs |-> _expand_query(a[1])]

\* variant: the index is asked for k candidates
OverFetch_none(k) == k

\* the number of candidates query asks the index for: k=k * 2
OverFetch(k) == k * 2

\* one call of query; the search reads the collection once, while the call is
\* suspended, and nothing else of the call touches shared state
query(a, k) ==
    LET expanded_query == ExpandedQuery[a]
        where_filter   == WhereFilter(a[2], a[3], a[4])
        ev == [Event("query", "ok") EXCEPT !.args = a,
                                           !.k = k, !.fetch = OverFetch(k),
                                           !.where_filter = where_filter,
                                           !.searched = expanded_query]
    IN  /\ \/ \E embedding \in Embeddings :
                \E results \in similarity_search_with_score(
                                   vector_store, embedding, expanded_query,
                                   OverFetch(k), where_filter) :
                    last' = [ev EXCEPT !.candidates = results,
                                       !.results = FormatResults(results, k)]
           \/ last' = [ev EXCEPT !.result = "error"]
        /\ UNCHANGED <<units, _cache, skills_file, materials_file, vector_store,
                       indexed_ids, inflight, upsert_failed, completed, submitted>>

-----------------------------------------------------------------------------
(* The unit table, the live unit search and the /eligibility endpoint      *)

Digits == "0123456789"

UpperChars == Chars(UpperCase)
DigitChars == Chars(Digits)

\* a match of [A-Z]{4}\d{4}
IsUnitCode(text) ==
    /\ Len(text) = 8
    /\ \A j \in 1..4 : SubSeq(text, j, j) \in UpperChars
    /\ \A j \in 5..8 : SubSeq(text, j, j) \in DigitChars

\* re.findall(r"([A-Z]{4}\d{4})", text)
RECURSIVE findall(_)
findall(text) ==
    IF Len(text) < 8 THEN <<>>
    ELSE IF IsUnitCode(SubSeq(text, 1, 8))
    THEN <<SubSeq(text, 1, 8)>> \o findall(SubSeq(text, 9, Len(text)))
    ELSE findall(Tail(text))

\* the distinct items of a list, each at its first place
RECURSIVE Unique(_)
Unique(xs) ==
    IF xs = <<>> THEN <<>>
    ELSE LET rest == Unique(SubSeq(xs, 1, Len(xs) - 1))
             x    == xs[Len(xs)]
         IN  IF \E j \in 1..Len(rest) : rest[j] = x THEN rest
             ELSE Append(rest, x)

\* database.get_unit: the row of the code with its outcomes and prerequisites
get_unit(table, unit_code) ==
    IF \E j \in 1..Len(table) : table[j].unit_code = unit_code
    THEN <<table[CHOOSE j \in 1..Len(table) : table[j].unit_code = unit_code]>>
    ELSE None

\* a row inserted with its code and title only (the other columns NULL)
PlaceholderUnit(p_code) ==
    [unit_code |-> p_code, title |-> "Placeholder Unit",
     prerequisites |-> <<>>, learning_outcomes |-> <<>>]

\* database.save_unit: the row of the unit is replaced (a replaced row is
\* a new row, at the end of the table), its outcomes are rewritten, its
\* prerequisites are the unit codes found in raw_prerequisites other than its
\* own, and a placeholder row is inserted for each of them that has no row.
\* The prerequisite rows are read back in the order of the codes in the text.
save_unit(table, unit_data) ==
    LET unit_code     == unit_data.unit_code
        raw_prereqs   == Get(unit_data, "raw_prerequisites", "")
        other(p)      == p # unit_code
        found_prereqs == SelectSeq(Unique(findall(raw_prereqs)), other)
        row  == [unit_code |-> unit_code, title |-> unit_data.title,
                 description |-> unit_data.description,
                 credit_points |-> Get(unit_data, "credit_points", 10),
                 raw_prerequisites |-> raw_prereqs,
                 prerequisites |-> found_prereqs,
                 learning_outcomes |-> Get(unit_data, "learning_outcomes", <<>>)]
        rest(u)  == u.unit_code # unit_code
        replaced == Append(SelectSeq(table, rest), row)
        absent(p) == get_unit(replaced, p) = None
        new_codes == SelectSeq(found_prereqs, absent)
    IN  replaced \o [j \in 1..Len(new_codes) |-> PlaceholderUnit(new_codes[j])]

\* what the unit pages of the university's web site may show for a code: the
\* record search_unit builds from a page
LiveComp1000 ==
    [unit_code |-> "COMP1000", title |-> "Intro",
     description |-> "Programming for beginners",
     prerequisites |-> <<>>, raw_prerequisites |-> "",
     credit_points |-> 20,
     learning_outcomes |-> <<"Write basic programs">>]

LiveComp1010 ==
    [unit_code |-> "COMP1010", title |-> "Fundamentals",
     description |-> Rep("Data structures. ", 6),
     prerequisites |-> <<"COMP1000", "MATH1000">>,
     raw_prerequisites |-> "COMP1000 and MATH1000",
     credit_points |-> 10,
     learning_outcomes |-> <<"Design programs", "Design programs">>]

LiveUnits == {LiveComp1000, LiveComp1010}

\* UnitSearcher.search_unit: the cached record of the code if there is one,
\* else whatever the site answers now (nothing, or a record of that code)
search_unit(cache, unit_code) ==
    IF \E r \in cache : r.unit_code = unit_code
    THEN {<<r>> : r \in {c \in cache : c.unit_code = unit_code}}
    ELSE {None} \cup {<<r>> : r \in {l \in LiveUnits : l.unit_code = unit_code}}

\* the record a found live record is returned as, and the cache after it
Cached(cache, live_data) ==
    IF live_data = None THEN cache ELSE cache \cup {live_data[1]}

\* get_unit_with_live_first(unit_code) with use_cache = False, given what
\* search_unit returned: the unit record (or None) and the table afterwards
get_unit_with_live_first(table, unit_code, live_data) ==
    IF live_data # None /\ live_data[1].unit_code # ""
    THEN [unit_data |-> live_data, units |-> save_unit(table, live_data[1])]
    ELSE LET unit_data == get_unit(table, unit_code)
         IN  IF /\ unit_data # None
                /\ unit_data[1].title # ""
                /\ unit_data[1].title # "Placeholder Unit"
             THEN [unit_data |-> unit_data, units |-> table]
             ELSE [unit_data |-> None, units |-> table]

\* logic.check_incompatibles
check_incompatibles(completed_units, target_unit) == <<>>

EligibilityResponse(eligible, missing, incompatibles, errors) ==
    [eligible |-> eligible, missing_prerequisites |-> missing,
     incompatible_units |-> incompatibles, errors |-> errors]

\* variant: the codes are compared as they are written
missing_exact(prerequisites, completed_units) ==
    LET lacking(p) == \A j \in 1..Len(completed_units) : completed_units[j] # p
    IN  SelectSeq(prerequisites, lacking)

\* completed_upper = [u.upper() for u in request.completed_units];
\* missing = [p for p in prerequisites if p.upper() not in completed_upper]
missing_prerequisites(prerequisites, completed_units) ==
    LET completed_upper == [j \in 1..Len(completed_units) |->
                               upper(completed_units[j])]
        lacking(p) == \A j \in 1..Len(completed_upper) :
                          completed_upper[j] # upper(p)
    IN  SelectSeq(prerequisites, lacking)

\* POST /eligibility
check_eligibility(request) ==
    LET ev == [Event("check_eligibility", "ok") EXCEPT !.request = request]
    IN  /\ IF request.query_units = <<>>
           THEN /\ last' = [ev EXCEPT !.response =
                              EligibilityResponse(FALSE, <<>>, <<>>,
                                  <<"No query units provided">>)]
                /\ UNCHANGED <<units, _cache>>
           ELSE LET target_unit == upper(request.query_units[1])
                IN  \E live_data \in search_unit(_cache, target_unit) :
                    \E got \in {get_unit_with_live_first(units, target_unit,
                                                          live_data)} :
                      LET unit_data == got.unit_data
                          prerequisites ==
                              IF unit_data = None THEN <<>>
                              ELSE Get(unit_data[1], "prerequisites", <<>>)
                          missing ==
                              missing_prerequisites(prerequisites,
                                                    request.completed_units)
                          incompatibles ==
                              check_incompatibles(request.completed_units,
                                                  target_unit)
                          is_eligible == Len(missing) = 0 /\ Len(incompatibles) = 0
                      IN  /\ units' = got.units
                          /\ _cache' = Cached(_cache, live_data)
                          /\ last' =
                                IF unit_data = None
                                THEN [ev EXCEPT !.response =
                                        EligibilityResponse(FALSE, <<>>, <<>>,
                                            <<"Unit " \o target_unit \o " not found">>)]
                                ELSE [ev EXCEPT
                                        !.unit_data = unit_data,
                                        !.response =
                                          EligibilityResponse(is_eligible, missing,
                                              incompatibles, <<>>)]
        /\ UNCHANGED <<skills_file, materials_file, vector_store, indexed_ids,
                       inflight, upsert_failed, completed, submitted>>

\* the table and the cache after the loop of fetch_and_ingest over the codes:
\* every outcome the site's answers allow
RECURSIVE FetchAndSave(_, _, _)
FetchAndSave(unit_codes, table, cache) ==
    IF unit_codes = <<>> THEN {[units |-> table, cache |-> cache]}
    ELSE UNION {FetchAndSave(Tail(unit_codes),
                             IF live_data # None
                             THEN save_unit(table, live_data[1]) ELSE table,
                             Cached(cache, live_data)) :
                   live_data \in search_unit(cache, upper(Head(unit_codes)))}

\* the background task of POST /rag/ingest-live: the units found on the site
\* are saved, then ingest_units runs up to its await
fetch_and_ingest(unit_codes) ==
    \E saved \in FetchAndSave(unit_codes, units, _cache) :
        /\ units' = saved.units
        /\ _cache' = saved.cache
        /\ Loop("ingest_units", UnitCandidates(saved.units), FALSE)
        /\ UNCHANGED <<skills_file, materials_file, vector_store, upsert_failed>>

\* the requests the clients of /eligibility send
EligibilityRequests ==
    { [completed_units |-> <<"COMP1000">>, query_units |-> <<"COMP1010">>],
      [completed_units |-> <<>>,           query_units |-> <<"COMP1010">>],
      [completed_units |-> <<"comp1000", "Math1000">>,
       query_units |-> <<"comp1010", "COMP1000">>],
      [completed_units |-> <<"COMP1000">>, query_units |-> <<>>],
      [completed_units |-> <<>>,           query_units |-> <<"MATH1000">>] }

\* the unit codes POST /rag/ingest-live is called with
LiveCodeLists == {<<"COMP1000", "COMP1010">>}

-----------------------------------------------------------------------------
\* the source configurations a run starts from
Deployments ==
    { [units |-> <<UnitComp1000>>, skills |-> Missing, materials |-> Missing],
      [units |-> <<UnitComp1000, UnitComp1010>>,
       skills |-> File(<<SkillPython, SkillSql>>),
       materials |-> File(<<MaterialPythonDocs, MaterialSqlCourse>>)],
      [units |-> <<UnitOverlapA, UnitOverlapB>>,
       skills |-> Malformed, materials |-> Malformed],
      [units |-> <<UnitComp1000>>,
       skills |-> File(<<SkillPython, SkillNoName, SkillSql>>),
       materials |-> File(<<MaterialNoUrl, MaterialPythonDocs>>)],
      [units |-> <<UnitComp1000>>,
       skills |-> File(<<SkillCloudAws, SkillCloudAzure>>),
       materials |-> Missing],
      [units |-> <<UnitComp1000>>,
       skills |-> File(<<SkillSplitA, SkillSplitB>>),
       materials |-> Missing] }

Init ==
    /\ \E d \in Deployments :
          /\ units = d.units
          /\ skills_file = d.skills
          /\ materials_file = d.materials
    /\ _cache = {}
    /\ vector_store = {}
    /\ indexed_ids = {}
    /\ inflight = {}
    /\ upsert_failed = {}
    /\ completed = {}
    /\ submitted = NoneSubmitted
    /\ last = Event("none", "none")

\* ingestion, with upserts that fail and processes that restart
Next ==
    \/ ingest_units
    \/ ingest_skills
    \/ ingest_materials
    \/ \E t \in inflight : AddDocumentsReturns(t)
    \/ \E t \in inflight : AddDocumentsRaises(t)
    \/ Restart

Spec == Init /\ [][Next]_vars

\* queries interleaved with ingestion over a healthy index
QueryNext ==
    \/ ingest_units
    \/ ingest_skills
    \/ ingest_materials
    \/ \E t \in inflight : AddDocumentsReturns(t)
    \/ \E a \in QueryArgs, k \in 1..MaxK : query(a, k)

QuerySpec == Init /\ [][QueryNext]_vars

\* the unit table changing under ingestion: live searches, eligibility
\* requests and restarts, over a healthy index
LiveNext ==
    \/ ingest_units
    \/ \E t \in inflight : AddDocumentsReturns(t)
    \/ Restart
    \/ \E unit_codes \in LiveCodeLists : fetch_and_ingest(unit_codes)
    \/ \E request \in EligibilityRequests : check_eligibility(request)

\* the unit tables such a run starts from, with no skills or materials file
LiveInit ==
    /\ units \in {<<UnitComp1000>>, <<UnitComp1000, UnitComp1010>>}
    /\ skills_file = Missing
    /\ materials_file = Missing
    /\ _cache = {}
    /\ vector_store = {}
    /\ indexed_ids = {}
    /\ inflight = {}
    /\ upsert_failed = {}
    /\ completed = {}
    /\ submitted = NoneSubmitted
    /\ last = Event("none", "none")

LiveSpec == LiveInit /\ [][LiveNext]_vars

\* the skills file as it stands on disk at one time or another: records are
\* dropped from it, and a record is rewritten past its first IdPrefixLen
\* characters
SkillsFiles ==
    {File(<<SkillPython, SkillSql>>), File(<<SkillCloudAws>>),
     File(<<SkillCloudAzure>>)}

\* SKILLS_FILE is replaced on disk
ReplaceSkillsFile ==
    /\ \E file \in SkillsFiles \ {skills_file} : skills_file' = file
    /\ last' = Event("replace_skills_file", "ok")
    /\ UNCHANGED <<units, _cache, materials_file, vector_store, indexed_ids,
                   inflight, upsert_failed, completed, submitted>>

GrowInit ==
    /\ units = <<UnitComp1000>>
    /\ skills_file \in SkillsFiles
    /\ materials_file = Missing
    /\ _cache = {}
    /\ vector_store = {}
    /\ indexed_ids = {}
    /\ inflight = {}
    /\ upsert_failed = {}
    /\ completed = {}
    /\ submitted = NoneSubmitted
    /\ last = Event("none", "none")

\* ingestion and queries over a skills file that changes, with upserts that
\* fail and processes that restart
GrowNext ==
    \/ ingest_units
    \/ ingest_skills
    \/ \E t \in inflight : AddDocumentsReturns(t)
    \/ \E t \in inflight : AddDocumentsRaises(t)
    \/ Restart
    \/ ReplaceSkillsFile
    \/ \E k \in 1..MaxK : query(<<"oop basics", None, None, None>>, k)

GrowSpec == GrowInit /\ [][GrowNext]_vars

\* how far the sampled distances run from 0 and to either side of 2.0
MaxNear == 40

\* the distances _normalize_score is applied to: every one near 0 and near
\* 2.0, and every tenth from 0.0 to 2.5
Distances ==
    (0..MaxNear)
    \cup {MaxDistance - MaxNear + j : j \in 0..(2 * MaxNear)}
    \cup {j * (MaxDistance \div 20) : j \in 0..25}

\* one call of _normalize_score
normalize_score(distance) ==
    /\ last' = [Event("_normalize_score", "ok") EXCEPT
                   !.distance = distance,
                   !.score = _normalize_score(distance)]
    /\ UNCHANGED <<units, _cache, skills_file, materials_file, vector_store,
                   indexed_ids, inflight, upsert_failed, completed, submitted>>

ScoreNext == \E distance \in Distances : normalize_score(distance)

ScoreSpec == Init /\ [][ScoreNext]_vars

-----------------------------------------------------------------------------
(* What the claims speak of                                                *)

SeqSet(xs) == {xs[j] : j \in 1..Len(xs)}

FileOf(op) == IF op = "ingest_skills" THEN skills_file ELSE materials_file

RequiredOf(op) == IF op = "ingest_skills" THEN SkillRequired ELSE MaterialRequired

\* the candidates of every record of a source that has its required fields
SourceCandidates(op) ==
    IF op = "ingest_units" THEN SeqSet(UnitCandidates(units))
    ELSE IF ~FileOf(op).parses THEN {}
    ELSE LET good == {item \in SeqSet(FileOf(op).data) :
                         WellFormed(item, RequiredOf(op))}
         IN  IF op = "ingest_skills" THEN {SkillCandidate(item) : item \in good}
             ELSE {MaterialCandidate(item) : item \in good}

IdOf(c) == _generate_doc_id(c.text, c.metadata)

DerivedIds(op) == {IdOf(c) : c \in SourceCandidates(op)}

HasMalformedRecord(op) ==
    FileOf(op).parses /\ Raises(FileOf(op).data, RequiredOf(op))

FileOps == {"ingest_skills", "ingest_materials"}

\* every document the program holds: in the collection or on its way to it
StoredDocs == vector_store \cup UNION {DocSet(t.documents) : t \in inflight}

-----------------------------------------------------------------------------
\* C1 (as claimed): once a call of a source has run to a normal return, a
\* further call of that source that returns normally, in the same process or
\* in a fresh one, leaves the set of document ids of the corpus as it was.
C1_Idempotent ==
    [][\A op \in IngestOps :
          (op \in completed /\ last'.op = op /\ last'.result = "ok")
              => Ids(vector_store') = Ids(vector_store)]_vars

\* C2 (as claimed): a call made after an upsert of its source failed in this
\* process submits a batch again, and once it has returned the corpus holds
\* every document derived from the source.
C2_RetryResubmits ==
    \A op \in IngestOps :
        (last.op = op /\ last.retry /\ last.result \in {"awaiting", "ok"})
            => /\ last.upserted
               /\ last.result = "ok" => DerivedIds(op) \subseteq Ids(vector_store)

\* C3 (as claimed): a call that meets a record without a required field does
\* not end in an error, and every record of the file that has its fields has
\* been turned into a document (its id is in the Seen-ID Set).
C3_RecordIsolation ==
    \A op \in FileOps :
        (last.op = op /\ HasMalformedRecord(op))
            => /\ last.result \in {"awaiting", "ok"}
               /\ DerivedIds(op) \subseteq indexed_ids

\* C4: a call of ingest_skills (ingest_materials) with the file missing
\* returns normally without an upsert, and changes neither the corpus nor the
\* Seen-ID Set nor the set of suspended calls.
C4_MissingFileNoOp ==
    [][\A op \in FileOps :
          (~FileOf(op).exists /\ last'.op = op)
              => /\ last'.result = "ok"
                 /\ ~last'.upserted
                 /\ UNCHANGED <<vector_store, indexed_ids, inflight>>]_vars

C4_Witness ==
    /\ ~skills_file.exists
    /\ last.op = "ingest_skills" /\ last.result = "ok"
    /\ vector_store # {} /\ indexed_ids # {}

\* C5 (as claimed): a call of ingest_skills (ingest_materials) with a file
\* that does not parse returns normally.
C5_MalformedFileNoOp ==
    \A op \in FileOps :
        (FileOf(op).exists /\ ~FileOf(op).parses /\ last.op = op)
            => last.result = "ok"

\* C6: when a call of ingest_units that began with an empty corpus and an
\* empty Seen-ID Set has returned, the corpus holds exactly one description
\* document per unit and one learning_outcome document per outcome, with its
\* 0-based index: |units| + sum |learning_outcomes| unit documents (2 for one
\* unit with one outcome).
RECURSIVE OutcomeCount(_)
OutcomeCount(table) ==
    IF table = <<>> THEN 0
    ELSE Len(Head(table).learning_outcomes) + OutcomeCount(Tail(table))

C6_UnitCardinality ==
    (last.op = "ingest_units" /\ last.result = "ok" /\ last.fresh) =>
        LET unit_docs == {d \in vector_store : d.metadata.source = "unit_guide"}
            of_unit(u) == {d \in unit_docs : d.metadata.unit_code = u.unit_code}
        IN  /\ Cardinality(unit_docs) = Len(units) + OutcomeCount(units)
            /\ \A j \in 1..Len(units) :
                  /\ Cardinality({d \in of_unit(units[j]) :
                                     d.metadata.type = "description"}) = 1
                  /\ \A i \in 1..Len(units[j].learning_outcomes) :
                        Cardinality({d \in of_unit(units[j]) :
                                        /\ d.metadata.type = "learning_outcome"
                                        /\ d.metadata.outcome_index = i - 1}) = 1
            /\ (Len(units) = 1 /\ OutcomeCount(units) = 1)
                  => Cardinality(unit_docs) = 2

C6_Witness ==
    /\ last.op = "ingest_units" /\ last.result = "ok" /\ last.fresh
    /\ last.upserted
    /\ Len(units) = 2 /\ OutcomeCount(units) = 3
    /\ Cardinality({d \in vector_store : d.metadata.source = "unit_guide"}) = 5
    /\ Cardinality(vector_store) > 5

\* C7 (as claimed): two skill (or material) candidates of a file whose texts
\* differ anywhere get different ids.
C7_DistinctContentDistinctId ==
    \A op \in FileOps :
        (last.op = op /\ last.result \in {"awaiting", "ok"}) =>
            \A c1, c2 \in SourceCandidates(op) :
                c1.text # c2.text => IdOf(c1) # IdOf(c2)

\* C8: the id a document was stored under, in this process or an earlier one,
\* is the id _generate_doc_id gives now to any candidate with the same
\* unit_code, type and content, whatever else its metadata holds.
C8_IdDeterministic ==
    \A d \in StoredDocs :
        \A op \in IngestOps :
            \A c \in SourceCandidates(op) :
                (/\ Get(c.metadata, "unit_code", "") = Get(d.metadata, "unit_code", "")
                 /\ c.metadata.type = d.metadata.type
                 /\ c.text = d.page_content)
                    => IdOf(c) = d.id

C8_Witness ==
    /\ last.op = "restart"
    /\ \E d \in vector_store :
          \E c \in SourceCandidates("ingest_skills") :
              /\ c.text = d.page_content
              /\ c.metadata # d.metadata

\* C9: a query that returns gives at most k results, and their distances do
\* not decrease along the list.
C9_CapAndOrder ==
    (last.op = "query" /\ last.result = "ok") =>
        /\ Len(last.results) <= last.k
        /\ \A i, j \in 1..Len(last.results) :
              i < j => last.results[i].distance <= last.results[j].distance

C9_Witness ==
    /\ last.op = "query" /\ last.result = "ok"
    /\ last.k = 2 /\ Len(last.candidates) = 4 /\ Len(last.results) = 2
    /\ last.results[1].distance < last.results[2].distance

\* C10: no two results of one query have the same content, also when the
\* index answers with that content under two ids.
C10_NoDuplicateContent ==
    (last.op = "query" /\ last.result = "ok") =>
        \A i, j \in 1..Len(last.results) :
            i # j => last.results[i].content # last.results[j].content

C10_Witness ==
    /\ last.op = "query" /\ last.result = "ok"
    /\ Len(last.results) = 2
    /\ \E i, j \in 1..Len(last.candidates) :
          /\ i < j
          /\ last.candidates[i].doc.page_content = last.candidates[j].doc.page_content
          /\ last.candidates[i].doc.id # last.candidates[j].doc.id

\* C11 (as claimed): every result of a query has, for each filter argument
\* the caller supplied (each one that is not None), that value under the
\* filter's metadata key: filter_source under source, filter_type under type,
\* filter_unit_code under unit_code.
FilterKeys == <<"source", "type", "unit_code">>

C11_FilterCorrectness ==
    (last.op = "query" /\ last.result = "ok") =>
        \A i \in 1..Len(last.results) :
            \A f \in 1..3 :
                last.args[f + 1] # None =>
                    /\ FilterKeys[f] \in DOMAIN last.results[i].metadata
                    /\ last.results[i].metadata[FilterKeys[f]]
                           = last.args[f + 1][1]

\* C12: every result of a query carries a similarity_percent between 0 and
\* 100 (0 and 10000 hundredths), whatever distance the index gave for it.
C12_SimilarityBounded ==
    (last.op = "query" /\ last.result = "ok") =>
        \A i \in 1..Len(last.results) :
            /\ last.results[i].similarity_percent >= 0
            /\ last.results[i].similarity_percent <= 100 * 100

C12_Witness ==
    /\ last.op = "query" /\ last.result = "ok"
    /\ Len(last.results) = 2
    /\ last.candidates[1].distance > MaxDistance
    /\ last.results[1].similarity_percent = 0

\* C13: every call of _normalize_score maps distance 0 to 100.0 and a
\* distance of 2.0 or more to 0.0, and a call with a larger distance than the
\* call before it gives a score that is not larger.
C13_ScoreMonotone ==
    [][last'.op = "_normalize_score" =>
          /\ last'.distance = 0 => last'.score = 100 * 100
          /\ last'.distance >= MaxDistance => last'.score = 0
          /\ (last.op = "_normalize_score" /\ last.distance < last'.distance)
                => last'.score <= last.score]_vars

C13_Witness ==
    /\ last.op = "_normalize_score"
    /\ last.distance > 0 /\ last.distance < MaxDistance
    /\ last.score > 0 /\ last.score < 100 * 100

\* C14: with no failing upsert, once each of ingest_units, ingest_skills and
\* ingest_materials has run to a normal return, in whatever order and however
\* interleaved, the corpus is the one set of documents the sources determine:
\* for each source the documents a call of it alone submits to an empty index.
SourceSequence(op) ==
    IF op = "ingest_units" THEN UnitCandidates(units)
    ELSE IF ~FileOf(op).exists THEN <<>>
    ELSE LET reached == Reached(FileOf(op).data, RequiredOf(op))
         IN  [j \in 1..Len(reached) |->
                 IF op = "ingest_skills" THEN SkillCandidate(reached[j])
                 ELSE MaterialCandidate(reached[j])]

ExpectedCorpus ==
    UNION {DocSet(AddNew(SourceSequence(op), <<>>, {}).documents) :
              op \in IngestOps}

C14_OrderIndependent ==
    (completed = IngestOps /\ inflight = {}) => vector_store = ExpectedCorpus

C14_Witness ==
    /\ completed = IngestOps /\ inflight = {}
    /\ last.op = "ingest_units" /\ last.upserted /\ ~last.fresh
    /\ {d.metadata.source : d \in vector_store}
          = {"unit_guide", "skills_mapping", "public_resource"}

\* C15: the text a query searches the index with is the query text with
\* every occurrence of an abbreviation of the table, spelled all in lower case
\* or all in upper case, replaced by its expansion (occurrences taken from
\* left to right); for "oop basics" it contains "object-oriented programming".
RECURSIVE ExpandOccurrences(_)
ExpandOccurrences(text) ==
    IF text = "" THEN ""
    ELSE LET hits == {j \in 1..Len(QUERY_EXPANSIONS) :
                         \/ StartsWith(text, QUERY_EXPANSIONS[j][1])
                         \/ StartsWith(text, upper(QUERY_EXPANSIONS[j][1]))}
         IN  IF hits = {} THEN Head(text) \o ExpandOccurrences(Tail(text))
             ELSE LET j == CHOOSE h \in hits : TRUE
                  IN  QUERY_EXPANSIONS[j][2] \o
                      ExpandOccurrences(
                          SubSeq(text, Len(QUERY_EXPANSIONS[j][1]) + 1, Len(text)))

AllOccurrencesExpanded == [a \in QueryArgs |-> ExpandOccurrences(a[1])]

C15_SearchesExpanded ==
    last.op = "query" =>
        /\ last.searched = AllOccurrencesExpanded[last.args]
        /\ last.args[1] = "oop basics"
              => Contains(last.searched, "object-oriented programming")

C15_Witness ==
    /\ last.op = "query" /\ last.result = "ok"
    /\ last.args[1] = "dbe DB Oop oopoop"
    /\ last.searched = "databasee database Oop " \o
                       "object-oriented programmingobject-oriented programming"
    /\ last.results # <<>>

\* C16: the corpus never holds two entries with the same id, whatever calls
\* of ingestion ran, also when a later process submits again, with another
\* content, an id the collection already holds.
C16_SingleEntryPerId ==
    \A d1, d2 \in vector_store : d1.id = d2.id => d1 = d2

C16_Witness ==
    /\ last.op = "ingest_units" /\ last.result = "ok"
    /\ last.replaced # {}
    /\ \E d \in vector_store :
          /\ d.id \in last.replaced
          /\ d.metadata.type = "description"
          /\ d.page_content = desc_text(LiveComp1000)

\* C17: every document of the corpus has a source and a type, and they pair
\* up: unit_guide with description or learning_outcome, skills_mapping with
\* skill, public_resource with material.
TypesOf(source) ==
    IF source = "unit_guide" THEN {"description", "learning_outcome"}
    ELSE IF source = "skills_mapping" THEN {"skill"}
    ELSE IF source = "public_resource" THEN {"material"}
    ELSE {}

C17_SourceTypePairing ==
    \A d \in vector_store :
        /\ {"source", "type"} \subseteq DOMAIN d.metadata
        /\ d.metadata.type \in TypesOf(d.metadata.source)

C17_Witness ==
    {<<d.metadata.source, d.metadata.type>> : d \in vector_store}
        = {<<"unit_guide", "description">>, <<"unit_guide", "learning_outcome">>,
           <<"skills_mapping", "skill">>, <<"public_resource", "material">>}

\* C18: once the three sources have been ingested and the corpus is not
\* empty, a query without a filter that returns gives at least one result.
C18_NonEmptyResult ==
    (/\ last.op = "query" /\ last.result = "ok"
     /\ DOMAIN last.where_filter = {}
     /\ completed = IngestOps /\ vector_store # {})
        => Len(last.results) >= 1

C18_Witness ==
    /\ last.op = "query" /\ last.result = "ok"
    /\ last.args = <<"oop basics", None, None, None>> /\ last.k = 1
    /\ completed = IngestOps /\ Cardinality(vector_store) = 2
    /\ Len(last.results) = 1

\* C19: an /eligibility response for a request whose first query unit was
\* found says eligible exactly when every prerequisite of that unit is among
\* the completed units, letter case apart, and lists as missing exactly the
\* prerequisites that are not; for a unit whose one prerequisite is COMP1000,
\* completing COMP1000 makes it eligible and an empty list reports COMP1000.
Appears(p, completed_units) ==
    \E j \in 1..Len(completed_units) : lower(completed_units[j]) = lower(p)

C19_Eligibility ==
    (last.op = "check_eligibility" /\ last.unit_data # None) =>
        LET prerequisites == last.unit_data[1].prerequisites
            completed_units == last.request.completed_units
            absent(p) == ~Appears(p, completed_units)
        IN  /\ last.response.eligible
                  <=> \A j \in 1..Len(prerequisites) :
                          Appears(prerequisites[j], completed_units)
            /\ last.response.missing_prerequisites
                  = SelectSeq(prerequisites, absent)
            /\ prerequisites = <<"COMP1000">> =>
                  /\ completed_units = <<"COMP1000">> => last.response.eligible
                  /\ completed_units = <<>> =>
                        /\ ~last.response.eligible
                        /\ last.response.missing_prerequisites = <<"COMP1000">>

C19_Witness ==
    /\ last.op = "check_eligibility" /\ last.unit_data # None
    /\ last.request.completed_units = <<"comp1000", "Math1000">>
    /\ last.unit_data[1].prerequisites = <<"COMP1000", "MATH1000">>
    /\ last.response.eligible

\* C20 (as claimed): when a call of ingest_units has read the unit table and
\* gone through it, every content derived from the table as it now is, that
\* of a record changed since it was last ingested included, is in the corpus
\* or in a batch on its way to it.
C20_RederivedOnChange ==
    (/\ last.op = "ingest_units"
     /\ last.result = "awaiting" \/ (last.result = "ok" /\ ~last.upserted))
        => \A c \in SeqSet(UnitCandidates(units)) :
               \E d \in StoredDocs : d.page_content = c.text


\* C21: within one process no document id is put in more than one upsert
\* batch, however the ingestion calls interleave: every id has been
\* submitted at most once since the process started
C21_NoDuplicateSubmission ==
    \A id \in DOMAIN submitted : submitted[id] <= 1

\* two calls are suspended at their upserts and a further call of one of
\* their sources has run beside them and returned
C21_Witness ==
    /\ Cardinality(inflight) >= 2
    /\ last.op \in InflightOps(inflight)
    /\ last.result = "ok"
    /\ ~last.upserted
    /\ DerivedIds(last.op) # {}
    /\ DerivedIds(last.op) \subseteq DOMAIN submitted

\* C22 (as claimed): whenever an ingestion call has returned without error,
\* whatever other calls of its source ran beside it, every document derived
\* from the source records it went through is in the corpus.
C22_CompletionImpliesPresence ==
    \A op \in IngestOps :
        (last.op = op /\ last.result = "ok")
            => DerivedIds(op) \subseteq Ids(vector_store)

\* C23 (as claimed): whenever no upsert is in flight, every id in the Seen-ID
\* Set is the id of a document of the corpus, also after a failed upsert and
\* after a call that ended in the middle of its records.
C23_SeenSetSound ==
    inflight = {} => indexed_ids \subseteq Ids(vector_store)

\* the candidates from position j on that a call finds unseen when it comes
\* to them: the id is neither in the Seen-ID Set at the start of the call nor
\* the id of a candidate the call examined before
RECURSIVE UnseenFrom(_, _)
UnseenFrom(cands, j) ==
    IF j > Len(cands) THEN <<>>
    ELSE IF /\ IdOf(cands[j]) \notin indexed_ids
            /\ \A i \in 1..(j - 1) : IdOf(cands[i]) # IdOf(cands[j])
         THEN <<Document(cands[j].text, cands[j].metadata, IdOf(cands[j]))>>
                  \o UnseenFrom(cands, j + 1)
         ELSE UnseenFrom(cands, j + 1)

\* C24: a step in which an ingestion call runs up to its await or its return
\* hands at most one batch to the upsert; the batch is exactly the candidates
\* of the source that were unseen when the call examined them, in source
\* order; and when there is no such candidate no upsert call is made.
C24_Batching ==
    [][\A op \in IngestOps :
          (last'.op = op /\ inflight \subseteq inflight')
              => LET made     == inflight' \ inflight
                     expected == UnseenFrom(SourceSequence(op), 1)
                 IN  /\ Cardinality(made) <= 1
                     /\ \A t \in made : t.op = op /\ t.documents = expected
                     /\ last'.upserted <=> made # {}
                     /\ last'.upserted => last'.batch = expected
                     /\ expected = <<>> => made = {}
                     /\ DOMAIN submitted' = DOMAIN submitted \cup
                            UNION {Ids(DocSet(t.documents)) : t \in made}]_vars

\* a call has handed over a batch that leaves out some candidate of its source
C24_Witness ==
    /\ last.op \in IngestOps
    /\ last.result = "awaiting"
    /\ last.batch # <<>>
    /\ Len(last.batch) < Len(SourceSequence(last.op))
    /\ \E t \in inflight : t.op = last.op /\ t.documents = last.batch

\* C25: a query that returns has asked the index for 2*k candidates (it got
\* that many, or every matching document when there are fewer) and gives
\* exactly min(k, D) results, D being the number of distinct contents among
\* the candidates the index returned.
DistinctContents(candidates) ==
    {candidates[j].doc.page_content : j \in 1..Len(candidates)}

C25_ResultCount ==
    (last.op = "query" /\ last.result = "ok") =>
        /\ last.fetch = 2 * last.k
        /\ Len(last.candidates) =
              Min(2 * last.k,
                  Cardinality({d \in vector_store :
                                  Matches(d, last.where_filter)}))
        /\ Len(last.results) =
              Min(last.k, Cardinality(DistinctContents(last.candidates)))

\* the index returned more candidates than k, two of them with one content
C25_Witness ==
    /\ last.op = "query" /\ last.result = "ok"
    /\ Len(last.candidates) > last.k
    /\ Cardinality(DistinctContents(last.candidates)) < Len(last.candidates)
    /\ Len(last.results) = Cardinality(DistinctContents(last.candidates))
    /\ Len(last.results) <= last.k

\* C26: the results of a query are a subsequence of the candidates the index
\* returned: each result is the first candidate of its content, with that
\* candidate's metadata and distance, and the results stand in the order of
\* those candidates.
FirstOccurrence(candidates, content) ==
    CHOOSE j \in 1..Len(candidates) :
        /\ candidates[j].doc.page_content = content
        /\ \A i \in 1..(j - 1) : candidates[i].doc.page_content # content

C26_OrderPreserved ==
    (last.op = "query" /\ last.result = "ok") =>
        /\ \A i \in 1..Len(last.results) :
              /\ last.results[i].content \in DistinctContents(last.candidates)
              /\ LET c == last.candidates[FirstOccurrence(last.candidates,
                                              last.results[i].content)]
                 IN  /\ last.results[i].metadata = c.doc.metadata
                     /\ last.results[i].distance = RoundTo(c.distance, 10)
        /\ \A i, j \in 1..Len(last.results) :
              i < j => FirstOccurrence(last.candidates, last.results[i].content)
                          < FirstOccurrence(last.candidates, last.results[j].content)

\* the index returned one content twice, under different metadata, ahead of
\* another content, and the query gave two results
C26_Witness ==
    /\ last.op = "query" /\ last.result = "ok"
    /\ Len(last.results) = 2
    /\ \E i, j, n \in 1..Len(last.candidates) :
          /\ i < j /\ j < n
          /\ last.candidates[i].doc.page_content = last.candidates[j].doc.page_content
          /\ last.candidates[i].doc.metadata # last.candidates[j].doc.metadata
          /\ last.results[1].content = last.candidates[i].doc.page_content
          /\ last.results[2].content = last.candidates[n].doc.page_content

\* C27 (as claimed): the text a query searches with has an abbreviation
\* replaced only where it stands as a whole word (no letter or digit before
\* or after it); a query with the letters of an abbreviation only inside
\* longer words, as "be" in "between" and "ai" in "explain", is searched as
\* it was given.
WordChars == Chars(LowerCase) \cup Chars(UpperCase) \cup Chars(Digits)

\* the text from position j on, with the abbreviations that stand as whole
\* words replaced
RECURSIVE ExpandWholeWordsFrom(_, _)
ExpandWholeWordsFrom(text, j) ==
    IF j > Len(text) THEN ""
    ELSE LET rest == SubSeq(text, j, Len(text))
             hits == {h \in 1..Len(QUERY_EXPANSIONS) :
                         LET n == Len(QUERY_EXPANSIONS[h][1])
                         IN  /\ \/ StartsWith(rest, QUERY_EXPANSIONS[h][1])
                                \/ StartsWith(rest, upper(QUERY_EXPANSIONS[h][1]))
                             /\ j = 1 \/ SubSeq(text, j - 1, j - 1) \notin WordChars
                             /\ j + n > Len(text)
                                   \/ SubSeq(text, j + n, j + n) \notin WordChars}
         IN  IF hits = {}
             THEN SubSeq(text, j, j) \o ExpandWholeWordsFrom(text, j + 1)
             ELSE LET h == CHOOSE x \in hits : TRUE
                  IN  QUERY_EXPANSIONS[h][2] \o
                      ExpandWholeWordsFrom(text, j + Len(QUERY_EXPANSIONS[h][1]))

WholeWordsExpanded == [a \in QueryArgs |-> ExpandWholeWordsFrom(a[1], 1)]

C27_WholeWordExpansion ==
    last.op = "query" =>
        /\ last.searched = WholeWordsExpanded[last.args]
        /\ last.args[1] = "explain between" => last.searched = "explain between"

\* C28 (as claimed): the filter a query passes to the index has, for each of
\* filter_source, filter_type and filter_unit_code the caller supplied (each
\* one that is not None), one entry equating the filter's metadata key with
\* the supplied value, and no entry for an argument left out; with none
\* supplied the filter is empty and the search is made without one.
C28_FilterAssembly ==
    last.op = "query" =>
        \A f \in 1..3 :
            IF last.args[f + 1] # None
            THEN /\ FilterKeys[f] \in DOMAIN last.where_filter
                 /\ last.where_filter[FilterKeys[f]] = last.args[f + 1][1]
            ELSE FilterKeys[f] \notin DOMAIN last.where_filter

\* C29: no step of an ingestion call, an upsert, a query or a restart takes an
\* id out of the corpus, also when the record a document was derived from has
\* since been rewritten or dropped from its source; a document leaves the
\* corpus only by an upsert writing another document under its id.
C29_CorpusOnlyGrows ==
    [][/\ Ids(vector_store) \subseteq Ids(vector_store')
       /\ \A d \in vector_store \ vector_store' :
             /\ last'.upserted /\ last'.result = "ok"
             /\ \E e \in DocSet(last'.batch) \cap vector_store' : e.id = d.id]_vars

\* after the skills file was replaced, a call of ingest_skills has upserted
\* the documents of the new file, and the corpus still holds a skill document
\* whose record the file no longer has
C29_Witness ==
    /\ last.op = "ingest_skills" /\ last.result = "ok" /\ last.upserted
    /\ DerivedIds("ingest_skills") \subseteq Ids(vector_store)
    /\ \E d \in vector_store :
          /\ d.metadata.source = "skills_mapping"
          /\ d.id \notin DerivedIds("ingest_skills")

\* C30: a query step, returning or raising, with or without ingestion calls
\* suspended beside it, changes neither the corpus nor the Seen-ID Set (nor
\* the suspended calls); and what a query returns is fixed by k and by the
\* candidates the index gave it, whatever query ran before it.
C30_QueryReadOnly ==
    [][last'.op = "query" =>
          /\ UNCHANGED <<vector_store, indexed_ids, inflight>>
          /\ (/\ last.op = "query" /\ last.result = "ok" /\ last'.result = "ok"
              /\ last'.k = last.k /\ last'.candidates = last.candidates)
                 => last'.results = last.results]_vars

\* a query has returned results while an upsert was in flight, with the corpus
\* and the Seen-ID Set filled
C30_Witness ==
    /\ last.op = "query" /\ last.result = "ok"
    /\ last.results # <<>>
    /\ inflight # {}
    /\ indexed_ids # {} /\ vector_store # {}

=============================================================================
